---- MODULE Spec2Model ----
(***************************************************************************)
(* WasbTaskHandler (airflow/providers/microsoft/azure/log/                 *)
(* wasb_task_handler.py): one handler instance, the local log folder it    *)
(* reads and the remote blob container it writes to.                       *)
(*                                                                         *)
(* Text (log content, paths, messages) is a sequence of string tokens, so  *)
(* that joining, prefixing and "contains" are computed, not assumed.       *)
(* Every call into the environment (parent handler, local file system,     *)
(* WasbHook) appends an event to the event list of the running operation.  *)
(***************************************************************************)
EXTENDS Integers, Sequences, FiniteSets, TLC

\* ------------------------------------------------------------ bounds
\* close calls the model follows on one instance
MaxCloses == 3
\* load_string calls the model follows on one instance
MaxWrites == 2

\* ------------------------------------------------------------ inputs
TaskIds == {"t"}
Tries == {1, 2}
\* a task instance as the handler sees it: identity, try_number, raw
TIs == [id : TaskIds, try_number : Tries, raw : BOOLEAN]
\* the task instances handed to _read, which looks at neither ti.raw nor
\* ti.try_number
ReadTIs == {ti \in TIs : ~ti.raw /\ ti.try_number = 1}
NoTI == [id |-> "", try_number |-> 0, raw |-> FALSE]
\* content of a local log file / a log string handed to wasb_write
Logs == {<<"a">>}
\* content of a blob already in the container at start
OldLogs == {<<>>, <<"b">>}
\* the metadata argument of _read: None or a token
NoneMeta == <<"None">>
Metas == {NoneMeta, <<"m1">>}
\* how a call on the remote client ends: it returns, raises AzureHttpError,
\* or raises any other exception
Outcomes == {"ok", "azure", "other"}
Failures == {"azure", "other"}

\* two more handler instances that upload to one remote location, and the log
\* each of them uploads
Writers == {"w1", "w2"}
WriterLog(w) == <<w>>

local_base == <<"logs">>
remote_base == <<"wasb">>

\* ------------------------------------------------------------ paths
\* os.path.join(a, b)
Join(a, b) ==
  IF b /= <<>> /\ Head(b) = "/" THEN b
  ELSE IF a = <<>> \/ a[Len(a)] = "/" THEN a \o b
  ELSE a \o <<"/">> \o b

\* os.path.dirname(p): what precedes the last "/"
Dirname(p) ==
  LET idx == {i \in 1..Len(p) : p[i] = "/"}
  IN IF idx = {} THEN <<>>
     ELSE LET k == CHOOSE i \in idx : \A j \in idx : j <= i
          IN SubSeq(p, 1, k - 1)

\* p lies in directory d or below it
IsUnder(p, d) ==
  /\ Len(p) > Len(d) + 1
  /\ SubSeq(p, 1, Len(d)) = d
  /\ p[Len(d) + 1] = "/"

\* s occurs in t as a contiguous run of tokens
Contains(t, s) ==
  \E i \in 0..(Len(t) - Len(s)) : SubSeq(t, i + 1, i + Len(s)) = s

\* FileTaskHandler._render_filename(ti, try_number): deterministic template,
\* <task>/<try_number>.log
Render(ti, n) == <<ti.id, "/", ToString(n), ".log">>

RelPaths == {Render(ti, n) : ti \in TIs, n \in Tries}
LocalPaths == {Join(local_base, r) : r \in RelPaths}
RemoteLocs == {Join(remote_base, r) : r \in RelPaths}

Absent == [present |-> FALSE, text |-> <<>>]
File(t) == [present |-> TRUE, text |-> t]

VARIABLES
  log_relative_path,   \* self.log_relative_path
  upload_on_close,     \* self.upload_on_close
  closed,              \* self.closed
  delete_local_copy,   \* self.delete_local_copy
  hook,                \* the cached_property: "unset", "hook" or "none"
  blobs,               \* the container: remote location -> blob
  local,               \* the local log folder: path -> file
  count,               \* calls made so far, by kind
  ctx,                 \* the task instance of the latest set_context
  lastOp,              \* the latest operation: arguments, events, result
  writers              \* two further instances inside wasb_write on one location

vars == <<log_relative_path, upload_on_close, closed, delete_local_copy, hook,
          blobs, local, count, ctx, lastOp, writers>>

\* ------------------------------------------------------------ events
Ev(call, loc, data, out) == [call |-> call, loc |-> loc, data |-> data, out |-> out]

\* the part of the state an operation threads through its calls; whether the
\* base log folder itself exists is the environment's
Machine(env) == [hook |-> hook, blobs |-> blobs, local |-> local,
                 base_dir_exists |-> env.base, count |-> count, events |-> <<>>]

Emit(m, e) == [m EXCEPT !.events = Append(@, e)]

Calls(events, name) == {i \in 1..Len(events) : events[i].call = name}

BlobPresent(m, loc) == loc \in DOMAIN m.blobs /\ m.blobs[loc].present
BlobText(m, loc) == IF BlobPresent(m, loc) THEN m.blobs[loc].text ELSE <<>>

\* os.path.exists(p): a log file, or the base folder (p = base or base + "/")
IsFile(m, p) == p \in DOMAIN m.local /\ m.local[p].present
LocalExists(m, p) ==
  \/ IsFile(m, p)
  \/ /\ p \in {local_base, Join(local_base, <<>>)}
     /\ m.base_dir_exists

\* shutil.rmtree(d): every file under d goes, and the base folder if d is it
rmtree(m, d) ==
  [Emit(m, Ev("rmtree", d, <<>>, "ok")) EXCEPT
     !.local = [p \in DOMAIN m.local |-> IF IsUnder(p, d) THEN Absent ELSE m.local[p]],
     !.base_dir_exists = IF d = local_base THEN FALSE ELSE @,
     !.count.rmtree = @ + 1]

\* ------------------------------------------------------------ remote handle
\* What the environment does to the calls of one operation: how constructing
\* the WasbHook ends, how check_for_blob, read_file and load_string end, and
\* which error read_file raises for a blob that is not there.
Envs == [build : Outcomes, exists : Outcomes, read : Outcomes, write : Outcomes,
         missing : Failures, base : BOOLEAN]

\* self.hook (cached_property): the first access constructs the WasbHook;
\* a returned value (the hook, or None after AzureHttpError) is cached, any
\* other exception propagates and nothing is cached.
GetHook(m, env) ==
  IF m.hook /= "unset" THEN [m |-> m, raised |-> FALSE]
  ELSE LET m1 == Emit(m, Ev("WasbHook", <<>>, <<>>, env.build))
       IN CASE env.build = "ok" -> [m |-> [m1 EXCEPT !.hook = "hook"], raised |-> FALSE]
            [] env.build = "azure" -> [m |-> [m1 EXCEPT !.hook = "none"], raised |-> FALSE]
            [] OTHER -> [m |-> m1, raised |-> TRUE]

\* wasb_log_exists: every exception (a raising constructor, None.check_for_blob,
\* a raising check_for_blob) ends in False
wasb_log_exists(m, remote_log_location, env) ==
  LET g == GetHook(m, env)
  IN IF g.raised \/ g.m.hook = "none" THEN [m |-> g.m, ret |-> FALSE]
     ELSE LET found == BlobPresent(g.m, remote_log_location)
              out == IF env.exists /= "ok" THEN env.exists
                     ELSE IF found THEN "true" ELSE "false"
              m1 == Emit(g.m, Ev("check_for_blob", remote_log_location, <<>>, out))
          IN [m |-> m1, ret |-> (env.exists = "ok" /\ found)]

\* how read_file ends at a location: a missing blob cannot be read
ReadOutcome(m, loc, env) ==
  IF env.read = "ok" /\ ~BlobPresent(m, loc) THEN env.missing ELSE env.read

ReadErrorMsg(remote_log_location) == <<"Could not read logs from ">> \o remote_log_location

\* wasb_read: only AzureHttpError is caught
wasb_read(m, remote_log_location, return_error, env) ==
  LET g == GetHook(m, env)
  IN IF g.raised \/ g.m.hook = "none" THEN [m |-> g.m, ret |-> <<>>, raised |-> TRUE]
     ELSE LET out == ReadOutcome(g.m, remote_log_location, env)
              m1 == Emit(g.m, Ev("read_file", remote_log_location,
                                 IF out = "ok" THEN BlobText(g.m, remote_log_location)
                                 ELSE <<>>, out))
          IN CASE out = "ok" ->
                    [m |-> m1, ret |-> BlobText(m1, remote_log_location), raised |-> FALSE]
               [] out = "azure" ->
                    [m |-> m1,
                     ret |-> IF return_error THEN ReadErrorMsg(remote_log_location) ELSE <<>>,
                     raised |-> FALSE]
               [] OTHER -> [m |-> m1, ret |-> <<>>, raised |-> TRUE]

\* the new log put before the old one
MergeLog_prepend(old_log, log) ==
  IF old_log /= <<>> THEN log \o <<"\n">> \o old_log ELSE log

\* '\n'.join([old_log, log]) if old_log else log
MergeLog(old_log, log) == IF old_log /= <<>> THEN old_log \o <<"\n">> \o log ELSE log

\* wasb_write: read-modify-write, then load_string(..., overwrite=True);
\* only AzureHttpError from load_string is caught
wasb_write(m, log, remote_log_location, append, env) ==
  LET m0 == Emit(m, Ev("wasb_write", remote_log_location, log,
                       IF append THEN "append" ELSE "overwrite"))
      e == IF append THEN wasb_log_exists(m0, remote_log_location, env)
           ELSE [m |-> m0, ret |-> FALSE]
      r == IF e.ret THEN wasb_read(e.m, remote_log_location, FALSE, env)
           ELSE [m |-> e.m, ret |-> <<>>, raised |-> FALSE]
      text == IF e.ret THEN MergeLog(r.ret, log) ELSE log
  IN IF r.raised THEN [m |-> r.m, raised |-> TRUE]
     ELSE LET g == GetHook(r.m, env)
          IN IF g.raised \/ g.m.hook = "none" THEN [m |-> g.m, raised |-> TRUE]
             ELSE LET m1 == [Emit(g.m, Ev("load_string", remote_log_location, text, env.write))
                               EXCEPT !.count.load_string = @ + 1]
                  IN CASE env.write = "ok" ->
                            [m |-> [m1 EXCEPT !.blobs =
                                      (remote_log_location :> File(text)) @@ m1.blobs],
                             raised |-> FALSE]
                       [] env.write = "azure" -> [m |-> m1, raised |-> FALSE]
                       [] OTHER -> [m |-> m1, raised |-> TRUE]

\* ------------------------------------------------------------ handler
Handler == [log_relative_path |-> log_relative_path,
            upload_on_close |-> upload_on_close,
            closed |-> closed,
            delete_local_copy |-> delete_local_copy]

\* FileTaskHandler.close: releases the local file handler
ParentClose(m) ==
  Emit(m, Ev("super.close", <<>>, <<>>, "ok"))

\* the handler is left open
MarkClosed_skip(h) == h

\* line 105: self.closed = True
MarkClosed(h) == [h EXCEPT !.closed = TRUE]

\* the local folder is deleted before the upload
CloseUpload_deleteFirst(h, m, env) ==
  LET local_loc == Join(local_base, h.log_relative_path)
      remote_loc == Join(remote_base, h.log_relative_path)
      ex == LocalExists(m, local_loc)
      m2 == Emit(m, Ev("os.path.exists", local_loc, <<>>, IF ex THEN "true" ELSE "false"))
  IN IF ~ex THEN [h |-> MarkClosed(h), m |-> m2, raised |-> FALSE]
     ELSE IF ~IsFile(m2, local_loc)
     THEN [h |-> h, m |-> Emit(m2, Ev("open", local_loc, <<>>, "other")), raised |-> TRUE]
     ELSE
       LET log == m2.local[local_loc].text
           m3 == Emit(m2, Ev("open", local_loc, log, "ok"))
           m4 == IF h.delete_local_copy THEN rmtree(m3, Dirname(local_loc)) ELSE m3
           w == wasb_write(m4, log, remote_loc, TRUE, env)
       IN IF w.raised THEN [h |-> h, m |-> w.m, raised |-> TRUE]
          ELSE [h |-> MarkClosed(h), m |-> w.m, raised |-> FALSE]

\* a path that exists but is no file is read as an empty log
CloseUpload_openAny(h, m, env) ==
  LET local_loc == Join(local_base, h.log_relative_path)
      remote_loc == Join(remote_base, h.log_relative_path)
      ex == LocalExists(m, local_loc)
      m2 == Emit(m, Ev("os.path.exists", local_loc, <<>>, IF ex THEN "true" ELSE "false"))
  IN IF ~ex THEN [h |-> MarkClosed(h), m |-> m2, raised |-> FALSE]
     ELSE
       LET log == IF IsFile(m2, local_loc) THEN m2.local[local_loc].text ELSE <<>>
           m3 == Emit(m2, Ev("open", local_loc, log, "ok"))
           w == wasb_write(m3, log, remote_loc, TRUE, env)
       IN IF w.raised THEN [h |-> h, m |-> w.m, raised |-> TRUE]
          ELSE [h |-> MarkClosed(h),
                m |-> IF h.delete_local_copy
                      THEN rmtree(w.m, Dirname(local_loc))
                      ELSE w.m,
                raised |-> FALSE]

\* WasbTaskHandler.close, lines 94-105: upload the local file, delete its folder
CloseUpload(h, m, env) ==
  LET local_loc == Join(local_base, h.log_relative_path)
      remote_loc == Join(remote_base, h.log_relative_path)
      ex == LocalExists(m, local_loc)
      m2 == Emit(m, Ev("os.path.exists", local_loc, <<>>, IF ex THEN "true" ELSE "false"))
  IN IF ~ex THEN [h |-> MarkClosed(h), m |-> m2, raised |-> FALSE]
     ELSE IF ~IsFile(m2, local_loc)
     THEN \* open() of a directory raises IsADirectoryError
          [h |-> h, m |-> Emit(m2, Ev("open", local_loc, <<>>, "other")), raised |-> TRUE]
     ELSE
       LET log == m2.local[local_loc].text
           m3 == Emit(m2, Ev("open", local_loc, log, "ok"))
           w == wasb_write(m3, log, remote_loc, TRUE, env)
       IN IF w.raised THEN [h |-> h, m |-> w.m, raised |-> TRUE]
          ELSE [h |-> MarkClosed(h),
                m |-> IF h.delete_local_copy
                      THEN rmtree(w.m, Dirname(local_loc))
                      ELSE w.m,
                raised |-> FALSE]

\* upload_on_close is not looked at
close_ignoreRaw(h, m, env) ==
  IF h.closed THEN [h |-> h, m |-> m, raised |-> FALSE]
  ELSE CloseUpload(h, ParentClose(m), env)

\* WasbTaskHandler.close
close(h, m, env) ==
  IF h.closed THEN [h |-> h, m |-> m, raised |-> FALSE]
  ELSE LET m1 == ParentClose(m)
       IN IF ~h.upload_on_close THEN [h |-> h, m |-> m1, raised |-> FALSE]
          ELSE CloseUpload(h, m1, env)

\* FileTaskHandler._read(ti, try_number, metadata): the local read; eol is the
\* completion flag the parent reports
ParentRead(m, ti, try_number, metadata, eol) ==
  LET loc == Join(local_base, Render(ti, try_number))
      text == IF IsFile(m, loc)
              THEN <<"*** Reading local file: ">> \o loc \o <<"\n">> \o m.local[loc].text
              ELSE <<"*** Log file does not exist: ">> \o loc
  IN [m |-> Emit(Emit(m, Ev("super._read", loc, metadata, "call")),
                 Ev("super._read.return", loc, text, IF eol THEN "true" ELSE "false")),
      text |-> text,
      end_of_log |-> eol]

ReadHeader(remote_loc) == <<"*** Reading remote log from ">> \o remote_loc \o <<".", "\n">>

\* the local result is reported as complete whatever the parent said
read_forceEnd(m, ti, try_number, metadata, eol, env) ==
  LET rel == Render(ti, try_number)
      remote_loc == Join(remote_base, rel)
      e == wasb_log_exists(m, remote_loc, env)
  IN IF e.ret
     THEN LET r == wasb_read(e.m, remote_loc, TRUE, env)
          IN IF r.raised
             THEN [m |-> r.m, text |-> <<>>, end_of_log |-> FALSE, raised |-> TRUE]
             ELSE [m |-> r.m, text |-> ReadHeader(remote_loc) \o r.ret \o <<"\n">>,
                   end_of_log |-> TRUE, raised |-> FALSE]
     ELSE LET p == ParentRead(e.m, ti, try_number, NoneMeta, eol)
          IN [m |-> p.m, text |-> p.text, end_of_log |-> TRUE, raised |-> FALSE]

\* the remote content is left out of the returned text
read_headerOnly(m, ti, try_number, metadata, eol, env) ==
  LET rel == Render(ti, try_number)
      remote_loc == Join(remote_base, rel)
      e == wasb_log_exists(m, remote_loc, env)
  IN IF e.ret
     THEN LET r == wasb_read(e.m, remote_loc, TRUE, env)
          IN IF r.raised
             THEN [m |-> r.m, text |-> <<>>, end_of_log |-> FALSE, raised |-> TRUE]
             ELSE [m |-> r.m, text |-> ReadHeader(remote_loc) \o <<"\n">>,
                   end_of_log |-> TRUE, raised |-> FALSE]
     ELSE LET p == ParentRead(e.m, ti, try_number, NoneMeta, eol)
          IN [m |-> p.m, text |-> p.text, end_of_log |-> p.end_of_log, raised |-> FALSE]

\* WasbTaskHandler._read
read(m, ti, try_number, metadata, eol, env) ==
  LET rel == Render(ti, try_number)
      remote_loc == Join(remote_base, rel)
      e == wasb_log_exists(m, remote_loc, env)
  IN IF e.ret
     THEN LET r == wasb_read(e.m, remote_loc, TRUE, env)
          IN IF r.raised
             THEN [m |-> r.m, text |-> <<>>, end_of_log |-> FALSE, raised |-> TRUE]
             ELSE [m |-> r.m, text |-> ReadHeader(remote_loc) \o r.ret \o <<"\n">>,
                   end_of_log |-> TRUE, raised |-> FALSE]
     ELSE LET p == ParentRead(e.m, ti, try_number, NoneMeta, eol)
          IN [m |-> p.m, text |-> p.text, end_of_log |-> p.end_of_log, raised |-> FALSE]


\* ------------------------------------------------------------ state machine
Count0 == [close |-> 0, load_string |-> 0, rmtree |-> 0]

Op(name, ti, try_number, loc, log, flag, metadata) ==
  [op |-> name, ti |-> ti, try_number |-> try_number, loc |-> loc, log |-> log,
   flag |-> flag, metadata |-> metadata]

\* what an operation found: the handler fields, whether the local log file of
\* the context was there, and the blob at the location it was given
Found(loc) ==
  [h |-> Handler,
   local_file |-> (Join(local_base, log_relative_path) \in DOMAIN local
                   /\ local[Join(local_base, log_relative_path)].present),
   blob |-> IF loc \in DOMAIN blobs THEN blobs[loc] ELSE Absent]

\* the record of an operation: its arguments, what it found, the events it
\* caused, and what it returned
Done(op, found, events, text, ret, raised) ==
  [op |-> op.op, ti |-> op.ti, try_number |-> op.try_number, loc |-> op.loc,
   log |-> op.log, flag |-> op.flag, metadata |-> op.metadata,
   before |-> found, events |-> events, text |-> text, ret |-> ret, raised |-> raised]

\* The environments of an operation that makes the calls named in `used`: the
\* outcome of a call the operation cannot make is left at its default.
EnvsNow(used) ==
  {env \in Envs :
     /\ hook /= "unset" => env.build = "ok"
     /\ \A f \in {"exists", "read", "write"} :
          (f \notin used \/ hook = "none" \/ env.build /= "ok") => env[f] = "ok"
     /\ ("exists" \in used /\ env.exists /= "ok") => env.read = "ok"
     /\ "missing" \notin used => env.missing = "azure"
     /\ ("base" \notin used \/ log_relative_path /= <<>>) => env.base}

\* the location the two further instances upload to
RaceLoc == Join(remote_base, Render([id |-> "t", try_number |-> 1, raw |-> FALSE], 1))

\* both instances about to enter wasb_write(log, RaceLoc, append=True); start
\* is the blob that is at the location then
Writers0(blob) ==
  [start |-> blob,
   pc |-> [w \in Writers |-> "check"],
   text |-> [w \in Writers |-> WriterLog(w)]]

\* WasbTaskHandler.__init__
Init ==
  /\ log_relative_path = <<>>
  /\ upload_on_close = TRUE
  /\ closed = FALSE
  /\ delete_local_copy \in BOOLEAN
  /\ hook = "unset"
  /\ blobs \in [RemoteLocs -> {Absent} \cup {File(t) : t \in OldLogs}]
  /\ local \in [LocalPaths -> {Absent} \cup {File(t) : t \in Logs}]
  /\ count = Count0
  /\ ctx = NoTI
  /\ writers = Writers0(blobs[RaceLoc])
  /\ lastOp = Done(Op("init", NoTI, 0, <<>>, <<>>, FALSE, NoneMeta),
                   [h |-> [log_relative_path |-> <<>>, upload_on_close |-> TRUE,
                           closed |-> FALSE, delete_local_copy |-> delete_local_copy],
                    local_file |-> FALSE, blob |-> Absent],
                   <<>>, <<>>, FALSE, FALSE)

\* the machine state after an operation
Store(m) ==
  /\ hook' = m.hook
  /\ blobs' = m.blobs
  /\ local' = m.local
  /\ count' = m.count

\* the raw flag taken the wrong way round
UploadOnClose_inverted(ti) == ti.raw

\* line 78: self.upload_on_close = not ti.raw
UploadOnClose(ti) == ~ti.raw

\* set_context(ti)
SetContext ==
  \E ti \in TIs :
    /\ log_relative_path' = Render(ti, ti.try_number)
    /\ upload_on_close' = UploadOnClose(ti)
    /\ ctx' = ti
    /\ lastOp' = Done(Op("set_context", ti, ti.try_number, <<>>, <<>>, FALSE, NoneMeta),
                      Found(<<>>), <<Ev("super.set_context", <<>>, <<>>, "ok")>>,
                      <<>>, FALSE, FALSE)
    /\ UNCHANGED <<closed, delete_local_copy, hook, blobs, local, count, writers>>

\* the task logs a line: FileTaskHandler.emit writes the local file of the context
EmitLocal ==
  /\ log_relative_path /= <<>>
  /\ \E t \in Logs :
       local' = [local EXCEPT ![Join(local_base, log_relative_path)] = File(t)]
  /\ UNCHANGED <<log_relative_path, upload_on_close, closed, delete_local_copy, hook,
                 blobs, count, ctx, lastOp, writers>>

\* close()
Close ==
  /\ count.close < MaxCloses
  /\ \E env \in EnvsNow({"exists", "read", "write", "base"}) :
       \E r \in {close(Handler, [Machine(env) EXCEPT !.count.close = @ + 1], env)} :
          /\ closed' = r.h.closed
          /\ Store(r.m)
          /\ lastOp' = Done(Op("close", NoTI, 0, <<>>, <<>>, FALSE, NoneMeta),
                            Found(<<>>), r.m.events, <<>>, FALSE, r.raised)
  /\ UNCHANGED <<log_relative_path, upload_on_close, delete_local_copy, ctx, writers>>

\* the location is taken from the path set_context left on the instance
Read_cachedPath ==
  \E ti \in ReadTIs, n \in Tries, metadata \in Metas, eol \in BOOLEAN,
     env \in EnvsNow({"exists", "read"}) :
    \E r \in {read(Machine(env), ctx, ctx.try_number, metadata, eol, env)} :
       /\ Store(r.m)
       /\ lastOp' = Done(Op("_read", ti, n, <<>>, <<>>, eol, metadata),
                         Found(Join(remote_base, Render(ti, n))), r.m.events, r.text,
                         r.end_of_log, r.raised)
       /\ UNCHANGED <<log_relative_path, upload_on_close, closed, delete_local_copy, ctx,
                      writers>>

\* _read(ti, try_number, metadata)
Read ==
  \E ti \in ReadTIs, n \in Tries, metadata \in Metas, eol \in BOOLEAN,
     env \in EnvsNow({"exists", "read"}) :
    \E r \in {read(Machine(env), ti, n, metadata, eol, env)} :
       /\ Store(r.m)
       /\ lastOp' = Done(Op("_read", ti, n, <<>>, <<>>, eol, metadata),
                         Found(Join(remote_base, Render(ti, n))), r.m.events, r.text,
                         r.end_of_log, r.raised)
       /\ UNCHANGED <<log_relative_path, upload_on_close, closed, delete_local_copy, ctx,
                    writers>>

\* wasb_log_exists(remote_log_location)
WasbLogExists ==
  \E loc \in RemoteLocs, env \in EnvsNow({"exists"}) :
    \E r \in {wasb_log_exists(Machine(env), loc, env)} :
       /\ Store(r.m)
       /\ lastOp' = Done(Op("wasb_log_exists", NoTI, 0, loc, <<>>, FALSE, NoneMeta),
                         Found(loc), r.m.events, <<>>, r.ret, FALSE)
       /\ UNCHANGED <<log_relative_path, upload_on_close, closed, delete_local_copy, ctx,
                    writers>>

\* wasb_read(remote_log_location, return_error)
WasbRead ==
  \E loc \in RemoteLocs, return_error \in BOOLEAN, env \in EnvsNow({"read", "missing"}) :
    \E r \in {wasb_read(Machine(env), loc, return_error, env)} :
       /\ Store(r.m)
       /\ lastOp' = Done(Op("wasb_read", NoTI, 0, loc, <<>>, return_error, NoneMeta),
                         Found(loc), r.m.events, r.ret, FALSE, r.raised)
       /\ UNCHANGED <<log_relative_path, upload_on_close, closed, delete_local_copy, ctx,
                    writers>>

\* wasb_write(log, remote_log_location, append)
WasbWrite ==
  /\ count.load_string < MaxWrites
  /\ \E log \in Logs, loc \in RemoteLocs, append \in BOOLEAN,
        env \in EnvsNow({"exists", "read", "write"}) :
       \E r \in {wasb_write(Machine(env), log, loc, append, env)} :
          /\ Store(r.m)
          /\ lastOp' = Done(Op("wasb_write", NoTI, 0, loc, log, append, NoneMeta),
                            Found(loc), r.m.events, <<>>, FALSE, r.raised)
  /\ UNCHANGED <<log_relative_path, upload_on_close, closed, delete_local_copy, ctx,
                    writers>>

\* line 176: the instance asks whether the blob is there
RaceCheck ==
  \E w \in Writers :
    /\ writers.pc[w] = "check"
    /\ writers' = [writers EXCEPT
                     !.pc[w] = IF BlobPresent([blobs |-> blobs], RaceLoc) THEN "read"
                               ELSE "store"]
    /\ UNCHANGED <<log_relative_path, upload_on_close, closed, delete_local_copy, hook,
                   blobs, local, count, ctx, lastOp>>

\* the old log put after the new one
RaceRead_prepend ==
  \E w \in Writers :
    /\ writers.pc[w] = "read"
    /\ writers' = [writers EXCEPT
                     !.pc[w] = "store",
                     !.text[w] = MergeLog_prepend(BlobText([blobs |-> blobs], RaceLoc),
                                                  WriterLog(w))]
    /\ UNCHANGED <<log_relative_path, upload_on_close, closed, delete_local_copy, hook,
                   blobs, local, count, ctx, lastOp>>

\* lines 177-178: the instance reads the old log and joins its own to it
RaceRead ==
  \E w \in Writers :
    /\ writers.pc[w] = "read"
    /\ writers' = [writers EXCEPT
                     !.pc[w] = "store",
                     !.text[w] = MergeLog(BlobText([blobs |-> blobs], RaceLoc),
                                          WriterLog(w))]
    /\ UNCHANGED <<log_relative_path, upload_on_close, closed, delete_local_copy, hook,
                   blobs, local, count, ctx, lastOp>>

\* line 181: load_string(log, ..., overwrite=True) returns
RaceStore ==
  \E w \in Writers :
    /\ writers.pc[w] = "store"
    /\ blobs' = [blobs EXCEPT ![RaceLoc] = File(writers.text[w])]
    /\ writers' = [writers EXCEPT !.pc[w] = "done"]
    /\ UNCHANGED <<log_relative_path, upload_on_close, closed, delete_local_copy, hook,
                   local, count, ctx, lastOp>>

Next ==
  \/ SetContext
  \/ EmitLocal
  \/ Close
  \/ Read
  \/ WasbLogExists
  \/ WasbRead
  \/ WasbWrite

Spec == Init /\ [][Next]_vars

\* two instances that run wasb_write on one location, step by step
NextRace ==
  \/ RaceCheck
  \/ RaceRead
  \/ RaceStore

SpecRace == Init /\ [][NextRace]_vars

\* the handler's life cycle: context, logging, close
NextLife ==
  \/ SetContext
  \/ EmitLocal
  \/ Close

SpecLife == Init /\ [][NextLife]_vars

\* reads of the logs of any try
NextRead ==
  \/ Read

SpecRead == Init /\ [][NextRead]_vars

\* the remote primitives called on their own
NextPrim ==
  \/ WasbLogExists
  \/ WasbRead
  \/ WasbWrite

SpecPrim == Init /\ [][NextPrim]_vars

\* the round trip: context, logging, close, and reads at any point of it
NextTrip ==
  \/ SetContext
  \/ EmitLocal
  \/ Close
  \/ Read

\* a handler constructed over an empty container and an empty log folder
InitFresh ==
  /\ Init
  /\ \A loc \in RemoteLocs : blobs[loc] = Absent
  /\ \A p \in LocalPaths : local[p] = Absent

SpecTrip == InitFresh /\ [][NextTrip]_vars


\* ------------------------------------------------------------ properties
\* the events of the latest operation
Events == lastOp.events
Made(name) == Calls(Events, name) /= {}
RemoteCalls == {"check_for_blob", "read_file", "load_string"}
WasClosed == lastOp.before.h.closed
WasUploading == lastOp.before.h.upload_on_close

\* C1: however often close is called on one instance, it makes at most one
\* remote write (load_string) and at most one delete of the local folder.
C1_AtMostOneWriteAndDelete == count.load_string <= 1 /\ count.rmtree <= 1

C3_RawCloseNoRemote ==
  (lastOp.op = "close" /\ ctx /= NoTI /\ ctx.raw) =>
    \A i \in DOMAIN Events : Events[i].call \notin RemoteCalls \cup {"wasb_write"}

\* a raw context closed for the first time with its local file present
C3_RawCloseWithFile ==
  /\ lastOp.op = "close" /\ ctx /= NoTI /\ ctx.raw
  /\ ~WasClosed /\ lastOp.before.local_file /\ Made("super.close")

\* C4: the first close calls wasb_write(..., append=True) on remote_base +
\* log_relative_path exactly if upload_on_close is true and the local log file
\* exists at local_base + log_relative_path, and on no other location.
C4_UploadIffExpected ==
  (lastOp.op = "close" /\ count.close = 1) =>
    LET ws == Calls(Events, "wasb_write")
    IN /\ (ws /= {}) <=> (WasUploading /\ lastOp.before.local_file)
       /\ \A i \in ws :
            /\ Events[i].loc = Join(remote_base, lastOp.before.h.log_relative_path)
            /\ Events[i].out = "append"

\* a first close that uploaded
C4_FirstCloseUploads ==
  /\ lastOp.op = "close" /\ count.close = 1
  /\ WasUploading /\ lastOp.before.local_file /\ Made("wasb_write")

\* C10: close deletes the local folder only after it has read the local file
\* and load_string has returned (stored or failed), and never when there was
\* no local file.
C10_DeleteAfterUpload ==
  lastOp.op = "close" =>
    \A i \in Calls(Events, "rmtree") :
      /\ lastOp.before.local_file
      /\ \E j, k \in 1..(i - 1) :
           /\ j < k
           /\ Events[j].call = "open" /\ Events[j].out = "ok"
           /\ Events[k].call = "load_string" /\ Events[k].out \in {"ok", "azure"}

\* the folder deleted after an upload that failed
C10_DeletedAfterFailedUpload ==
  /\ lastOp.op = "close" /\ delete_local_copy /\ Made("rmtree")
  /\ \E k \in Calls(Events, "load_string") : Events[k].out = "azure"

\* check_for_blob reported the blob present
FoundRemote == \E i \in Calls(Events, "check_for_blob") : Events[i].out = "true"
ReadTarget == Join(remote_base, Render(lastOp.ti, lastOp.try_number))

\* C5: when the existence check reports the blob present, _read returns the
\* header naming the remote location followed by what the remote read gave (the
\* content, or the error text when the read fails), with end_of_log true, and
\* never calls the local read.
C5_RemoteFirstRead ==
  (lastOp.op = "_read" /\ FoundRemote) =>
    /\ ~lastOp.raised
    /\ lastOp.ret
    /\ ~Made("super._read")
    /\ \E i \in Calls(Events, "read_file") :
         lastOp.text = ReadHeader(ReadTarget)
                         \o (IF Events[i].out = "ok" THEN lastOp.before.blob.text
                             ELSE ReadErrorMsg(ReadTarget))
                         \o <<"\n">>

\* C6: when the existence check does not report the blob present (absent, the
\* check raising, no hook), _read makes no remote read, calls the parent's local
\* read once for its own ti and try_number, and returns exactly the text and
\* the end_of_log flag the parent returned.
C6_FallbackIsLocalResult ==
  (lastOp.op = "_read" /\ ~FoundRemote) =>
    /\ ~lastOp.raised
    /\ ~Made("read_file")
    /\ Cardinality(Calls(Events, "super._read")) = 1
    /\ \A i \in Calls(Events, "super._read") :
         Events[i].loc = Join(local_base, Render(lastOp.ti, lastOp.try_number))
    /\ \E i \in Calls(Events, "super._read.return") :
         /\ lastOp.text = Events[i].data
         /\ lastOp.ret = (Events[i].out = "true")

\* the check raised although the blob is there, and the parent's unfinished
\* local result came back
C6_FallbackAfterRaisingCheck ==
  /\ lastOp.op = "_read" /\ lastOp.before.blob.present
  /\ \E i \in Calls(Events, "check_for_blob") : Events[i].out = "other"
  /\ Made("super._read.return") /\ ~lastOp.ret /\ ~lastOp.raised

\* C7: on the fallback path the parent's local read receives the metadata the
\* caller gave to _read.
C7_MetadataPassedThrough ==
  lastOp.op = "_read" =>
    \A i \in Calls(Events, "super._read") : Events[i].data = lastOp.metadata

\* the latest operation ran against a working store: a hook, and no call failed
Working ==
  /\ ~lastOp.raised
  /\ hook = "hook"
  /\ \A i \in DOMAIN Events : Events[i].out \notin Failures

\* C8: on a working store wasb_write leaves old + newline + new when append is
\* true and the blob was there with non-empty content, and new alone when the
\* blob was absent or empty or append is false.
C8_AppendOrder ==
  (lastOp.op = "wasb_write" /\ Working) =>
    blobs[lastOp.loc] =
      File(IF lastOp.flag /\ lastOp.before.blob.present /\ lastOp.before.blob.text /= <<>>
           THEN lastOp.before.blob.text \o <<"\n">> \o lastOp.log
           ELSE lastOp.log)

\* "a" appended to a blob holding "b"
C8_AppendedToOld ==
  /\ lastOp.op = "wasb_write" /\ Working /\ lastOp.flag
  /\ lastOp.before.blob = File(<<"b">>) /\ lastOp.log = <<"a">>
  /\ blobs[lastOp.loc] = File(<<"b", "\n", "a">>)

\* C9: whatever read_file raises, wasb_read does not raise: with return_error
\* it returns a non-empty text containing the location, without it the empty
\* text.
C9_ReadNeverRaises ==
  (lastOp.op = "wasb_read" /\ \E i \in Calls(Events, "read_file") : Events[i].out \in Failures) =>
    /\ ~lastOp.raised
    /\ lastOp.flag => (lastOp.text /= <<>> /\ Contains(lastOp.text, lastOp.loc))
    /\ ~lastOp.flag => lastOp.text = <<>>

\* a first close of a non-raw context that found the local file and no blob at
\* its remote location, on a working store
TripClose ==
  /\ lastOp.op = "close" /\ Working /\ ~WasClosed /\ WasUploading
  /\ lastOp.before.local_file
  /\ \E i \in Calls(Events, "check_for_blob") : Events[i].out = "false"
\* the content of the local file that close read
TripLog == Events[CHOOSE i \in Calls(Events, "open") : TRUE].data
TripLoc == Join(remote_base, log_relative_path)

\* C11: round trip. On a working store with no blob at the rendered location,
\* close after set_context(raw false) with local content L makes exactly one
\* load_string, with L at remote_base + rendered path; and the next _read for
\* the same identity and try number returns a text containing L with
\* end_of_log true, read from the blob, the local read not being called.
C11_RoundTrip ==
  /\ [](TripClose =>
          /\ Cardinality(Calls(Events, "load_string")) = 1
          /\ \A i \in Calls(Events, "load_string") :
               Events[i].loc = TripLoc /\ Events[i].data = TripLog
          /\ blobs[TripLoc] = File(TripLog))
  /\ [][(/\ TripClose
          /\ lastOp'.op = "_read"
          /\ Render(lastOp'.ti, lastOp'.try_number) = log_relative_path
          /\ Working')
         => /\ lastOp'.ret
            /\ Contains(lastOp'.text, TripLog)
            /\ \E i \in Calls(lastOp'.events, "read_file") :
                 lastOp'.events[i].loc = TripLoc /\ lastOp'.events[i].out = "ok"
            /\ Calls(lastOp'.events, "super._read") = {}]_vars

\* the uploaded log read back after close has deleted the local folder
C11_ReadBackAfterDelete ==
  /\ lastOp.op = "_read" /\ Working /\ FoundRemote /\ lastOp.ret
  /\ Render(lastOp.ti, lastOp.try_number) = log_relative_path
  /\ closed /\ count.load_string = 1 /\ count.rmtree = 1
  /\ ~local[Join(local_base, log_relative_path)].present
  /\ lastOp.before.blob = File(<<"a">>)
  /\ Contains(lastOp.text, <<"a">>)

\* C12: when the hook is the cached None (the WasbHook could not be
\* constructed), no primitive raises: wasb_log_exists returns False, wasb_read
\* returns the empty text or its error text, and wasb_write makes no
\* load_string and leaves the blob as it was.
C12_NoHandleNeverRaises ==
  (hook = "none" /\ lastOp.op \in {"wasb_log_exists", "wasb_read", "wasb_write"}) =>
    /\ ~lastOp.raised
    /\ lastOp.op = "wasb_log_exists" => ~lastOp.ret
    /\ lastOp.op = "wasb_read" =>
         lastOp.text = (IF lastOp.flag THEN ReadErrorMsg(lastOp.loc) ELSE <<>>)
    /\ lastOp.op = "wasb_write" =>
         (~Made("load_string") /\ blobs[lastOp.loc] = lastOp.before.blob)

\* C13: when a remote call (check_for_blob, read_file, load_string) made
\* during close or _read fails, with whatever error, the operation does not
\* raise: _read returns its result, and close returns with closed set.
C13_RemoteFailuresContained ==
  (/\ lastOp.op \in {"close", "_read"}
   /\ \E i \in DOMAIN Events : Events[i].call \in RemoteCalls /\ Events[i].out \in Failures)
  => /\ ~lastOp.raised
     /\ lastOp.op = "close" => closed

\* old followed by new on a line of its own
Appended(old, new) == IF old = <<>> THEN new ELSE old \o <<"\n">> \o new
RaceDone == \A w \in Writers : writers.pc[w] = "done"

\* C14: two instances append to one location on a working store. When both
\* load_string calls have returned, the blob holds the content found at the
\* start followed by both logs in either order, or by one log only: the
\* update of the other instance is lost.
C14_RaceOutcomes ==
  RaceDone =>
    \E w \in Writers : \E v \in Writers \ {w} :
      blobs[RaceLoc] \in
        {File(Appended(Appended(writers.start.text, WriterLog(v)), WriterLog(w))),
         File(Appended(writers.start.text, WriterLog(w)))}

\* both writes succeeded over an old log, and the blob holds the old log and
\* the log of w2 but not the log of w1
C14_LostUpdate ==
  /\ RaceDone
  /\ writers.start = File(<<"b">>)
  /\ blobs[RaceLoc] = File(<<"b", "\n", "w2">>)
  /\ ~Contains(blobs[RaceLoc].text, WriterLog("w1"))

\* C15: _read, in whatever state the instance is, leaves log_relative_path,
\* upload_on_close and closed as they were, makes no remote write and no
\* local delete, and checks the remote location rendered from its own ti and
\* try_number arguments.
C15_ReadFrame ==
  lastOp.op = "_read" =>
    /\ lastOp.before.h = Handler
    /\ \A i \in DOMAIN Events : Events[i].call \notin {"wasb_write", "load_string", "rmtree"}
    /\ \A i \in Calls(Events, "check_for_blob") \cup Calls(Events, "read_file") :
         Events[i].loc = ReadTarget

\* a closed instance whose context is try 2 was asked for try 1, and looked
\* for the blob of try 1
C15_ReadOtherTryAfterClose ==
  /\ lastOp.op = "_read" /\ closed /\ ctx.try_number = 2 /\ lastOp.try_number = 1
  /\ ReadTarget /= Join(remote_base, log_relative_path)
  /\ \E i \in Calls(Events, "check_for_blob") : Events[i].loc = ReadTarget

\* C16: the WasbHook is constructed at most once on an instance: an operation
\* constructs it at most once, and once an operation has tried to construct
\* it, whether that gave the hook or failed, no later operation tries again.
C16_HookBuiltOnce ==
  /\ [](Cardinality(Calls(Events, "WasbHook")) <= 1)
  /\ [][(Made("WasbHook") /\ lastOp' /= lastOp) =>
          Calls(lastOp'.events, "WasbHook") = {}]_vars

\* C17: when close has deleted the local folder, the blob at remote_base +
\* log_relative_path contains the content the local file had.
C17_NoLogLoss ==
  (lastOp.op = "close" /\ Made("rmtree")) =>
    /\ blobs[TripLoc].present
    /\ Contains(blobs[TripLoc].text, TripLog)

\* C18: when wasb_write with append true has stored a blob (load_string
\* returned), the content that was at the location before the call is a
\* prefix of the content that is there after it.
C18_AppendKeepsOld ==
  (/\ lastOp.op = "wasb_write" /\ lastOp.flag
   /\ \E i \in Calls(Events, "load_string") : Events[i].out = "ok")
  => LET old == lastOp.before.blob.text
         new == blobs[lastOp.loc].text
     IN Len(old) <= Len(new) /\ SubSeq(new, 1, Len(old)) = old

\* C19: a close on an instance that never had set_context called
\* (log_relative_path empty) makes no wasb_write, no load_string and no
\* rmtree, whether or not delete_local_copy is set.
C19_CloseWithoutContext ==
  (lastOp.op = "close" /\ lastOp.before.h.log_relative_path = <<>>) =>
    \A i \in DOMAIN Events : Events[i].call \notin {"wasb_write", "load_string", "rmtree"}

\* close without context, delete_local_copy set, the base log folder there:
\* os.path.exists finds the folder and open() of it raises
C19_BaseFolderFound ==
  /\ lastOp.op = "close" /\ lastOp.before.h.log_relative_path = <<>>
  /\ ~WasClosed /\ WasUploading /\ delete_local_copy
  /\ \E i \in Calls(Events, "os.path.exists") :
       Events[i].loc = Join(local_base, <<>>) /\ Events[i].out = "true"
  /\ Made("open") /\ lastOp.raised

====
